---- MODULE Spec2Model ----
(***************************************************************************)
(* Model of the e-commerce calculator (package ecommerce_calculator):      *)
(* the three analyzers (demand, lifecycle, seasonality), the tools that    *)
(* wrap them with a metrics object, and the request handlers that call     *)
(* the tools and build the response.                                       *)
(*                                                                         *)
(* Conventions                                                             *)
(*  - a Python str is a sequence of character codes (ASCII), so that       *)
(*    parsing, formatting and string ordering are computed;                *)
(*  - a Python float is an exact rational [n, d] in lowest terms, d > 0;   *)
(*    a Python int is an integer;                                          *)
(*  - a dict whose iteration order matters is a sequence of [k, v] pairs   *)
(*    in insertion order; a dict with fixed keys is a record;              *)
(*  - a call that can raise yields [exc |-> <exception name>] in place of  *)
(*    its value; a function result is Return(v), ReturnNone or Raise(e).   *)
(***************************************************************************)
EXTENDS Integers, Sequences, FiniteSets, TLC

\* ------------------------------------------------------------------------
\* Bounds of the model
\* ------------------------------------------------------------------------
MaxHist == 2
MaxRequests == 2

\* ------------------------------------------------------------------------
\* Python values: exceptions and function outcomes
\* ------------------------------------------------------------------------
Exc(e) == [exc |-> e]
IsExc(x) == "exc" \in DOMAIN x

Return(v) == [kind |-> "return", value |-> v]
ReturnNone == [kind |-> "none"]
Raise(e) == [kind |-> "raise", exc |-> e]

\* ------------------------------------------------------------------------
\* Sequence helpers (Python list/sum/sorted)
\* ------------------------------------------------------------------------
\* sum() of a list of int, halving the list
RECURSIVE SumInts(_)
SumInts(s) ==
    IF s = <<>> THEN 0
    ELSE IF Len(s) = 1 THEN s[1]
    ELSE SumInts(SubSeq(s, 1, Len(s) \div 2)) + SumInts(SubSeq(s, Len(s) \div 2 + 1, Len(s)))

\* list(...) of a comprehension: its items, each evaluated once
List(f) == f \o <<>>

\* positions of a list where its value occurs for the first time, in order
FirstOccurrences(keys) ==
    LET IsFirst(i) == \A j \in 1..(i - 1) : keys[j] # keys[i]
    IN  SelectSeq([i \in 1..Len(keys) |-> i], IsFirst)

\* positions of a list that hold the value key, in order
Occurrences(keys, key) ==
    LET Holds(i) == keys[i] = key
    IN  SelectSeq([i \in 1..Len(keys) |-> i], Holds)

Max2(a, b) == IF a >= b THEN a ELSE b
Min2(a, b) == IF a <= b THEN a ELSE b

\* str comparison: lexicographic on character codes
StrLess(a, b) ==
    LET differ == {i \in 1..Min2(Len(a), Len(b)) : a[i] # b[i]}
    IN  IF differ = {} THEN Len(a) < Len(b)
        ELSE \E i \in differ : a[i] < b[i] /\ \A j \in differ : i <= j

\* ------------------------------------------------------------------------
\* Characters and number formatting
\* ------------------------------------------------------------------------
ChDash == 45
ChZero == 48
ChNine == 57
ChColon == 58
ChT == 84
ChSpace == 32
ChUnderscore == 95

IsDigit(c) == c >= ChZero /\ c <= ChNine

\* int(s) for a str of digits
RECURSIVE DigitsValue(_)
DigitsValue(s) ==
    IF s = <<>> THEN 0
    ELSE DigitsValue(SubSeq(s, 1, Len(s) - 1)) * 10 + (s[Len(s)] - ChZero)

AllDigits(s) == \A i \in 1..Len(s) : IsDigit(s[i])

\* zero-padded decimal of n in w characters ('%04d', '%02d')
RECURSIVE ZeroPad(_, _)
ZeroPad(n, w) ==
    IF w = 0 THEN <<>>
    ELSE ZeroPad(n \div 10, w - 1) \o <<ChZero + (n % 10)>>

\* date.isoformat(): the text of a calendar date, used to write the inputs
IsoDate(y, m, d) == ZeroPad(y, 4) \o <<ChDash>> \o ZeroPad(m, 2) \o <<ChDash>> \o ZeroPad(d, 2)
IsoDateTime(y, m, d, hh, mm) == IsoDate(y, m, d) \o <<ChT>> \o ZeroPad(hh, 2) \o <<ChColon>> \o ZeroPad(mm, 2)

\* ------------------------------------------------------------------------
\* datetime
\* ------------------------------------------------------------------------
IsLeap(y) == (y % 4 = 0) /\ ((y % 100 # 0) \/ (y % 400 = 0))

DaysInMonth(y, m) ==
    IF m = 2 THEN (IF IsLeap(y) THEN 29 ELSE 28)
    ELSE IF m \in {4, 6, 9, 11} THEN 30 ELSE 31

\* datetime.fromisoformat for the forms YYYY-MM-DD and YYYY-MM-DD?HH:MM
\* (any single separator character); any other text raises ValueError.
fromisoformat(s) ==
    LET dateOk == /\ Len(s) >= 10
                  /\ AllDigits(SubSeq(s, 1, 4))
                  /\ s[5] = ChDash
                  /\ AllDigits(SubSeq(s, 6, 7))
                  /\ s[8] = ChDash
                  /\ AllDigits(SubSeq(s, 9, 10))
        y == DigitsValue(SubSeq(s, 1, 4))
        m == DigitsValue(SubSeq(s, 6, 7))
        d == DigitsValue(SubSeq(s, 9, 10))
        ymdOk == y >= 1 /\ m >= 1 /\ m <= 12 /\ d >= 1 /\ d <= DaysInMonth(y, m)
        timeOk == /\ Len(s) = 16
                  /\ AllDigits(SubSeq(s, 12, 13))
                  /\ s[14] = ChColon
                  /\ AllDigits(SubSeq(s, 15, 16))
        hh == DigitsValue(SubSeq(s, 12, 13))
        mi == DigitsValue(SubSeq(s, 15, 16))
    IN  IF ~(Len(s) = 10 \/ Len(s) = 16) THEN Exc("ValueError")
        ELSE IF ~dateOk THEN Exc("ValueError")
        ELSE IF ~ymdOk THEN Exc("ValueError")
        ELSE IF Len(s) = 10
             THEN [year |-> y, month |-> m, day |-> d, hour |-> 0, minute |-> 0, tzinfo |-> "None"]
        ELSE IF timeOk /\ hh <= 23 /\ mi <= 59
             THEN [year |-> y, month |-> m, day |-> d, hour |-> hh, minute |-> mi, tzinfo |-> "None"]
        ELSE Exc("ValueError")

\* datetime.replace(tzinfo=timezone.utc): the wall-clock fields are kept
replace_tzinfo_utc(dt) == [dt EXCEPT !.tzinfo = "UTC"]

\* a < b on datetimes of the same awareness
DtLess(a, b) ==
    \/ a.year < b.year
    \/ a.year = b.year /\ a.month < b.month
    \/ a.year = b.year /\ a.month = b.month /\ a.day < b.day
    \/ a.year = b.year /\ a.month = b.month /\ a.day = b.day /\ a.hour < b.hour
    \/ a.year = b.year /\ a.month = b.month /\ a.day = b.day /\ a.hour = b.hour /\ a.minute < b.minute

DtLeq(a, b) == ~DtLess(b, a)

\* date.strftime('%Y-%m')
strftime_Ym(dt) == ZeroPad(dt.year, 4) \o <<ChDash>> \o ZeroPad(dt.month, 2)

\* days before the first of January of year y (datetime._days_before_year)
DaysBeforeYear(y) == (y - 1) * 365 + (y - 1) \div 4 - (y - 1) \div 100 + (y - 1) \div 400

RECURSIVE DaysBeforeMonth(_, _)
DaysBeforeMonth(y, m) == IF m = 1 THEN 0 ELSE DaysBeforeMonth(y, m - 1) + DaysInMonth(y, m - 1)

\* date.toordinal()
toordinal(dt) == DaysBeforeYear(dt.year) + DaysBeforeMonth(dt.year, dt.month) + dt.day

\* minutes since 0001-01-01T00:00 of a datetime (the model's clock unit)
DtMinutes(dt) == (toordinal(dt) - 1) * 1440 + dt.hour * 60 + dt.minute

\* ------------------------------------------------------------------------
\* float arithmetic as exact rationals
\* ------------------------------------------------------------------------
Abs(x) == IF x < 0 THEN -x ELSE x

RECURSIVE GCD(_, _)
GCD(a, b) == IF b = 0 THEN a ELSE GCD(b, a % b)

Rat(n, d) ==
    LET g == GCD(Abs(n), Abs(d))
        s == IF d < 0 THEN -1 ELSE 1
    IN  [n |-> s * (n \div g), d |-> s * (d \div g)]

RInt(i) == [n |-> i, d |-> 1]
RZero == RInt(0)
ROne == RInt(1)

RAdd(a, b) == Rat(a.n * b.d + b.n * a.d, a.d * b.d)
RSub(a, b) == Rat(a.n * b.d - b.n * a.d, a.d * b.d)
RMul(a, b) == Rat(a.n * b.n, a.d * b.d)
RLess(a, b) == a.n * b.d < b.n * a.d
RLeq(a, b) == a.n * b.d <= b.n * a.d
RAbs(a) == [n |-> Abs(a.n), d |-> a.d]
RMin(a, b) == IF RLeq(a, b) THEN a ELSE b
RMax(a, b) == IF RLeq(b, a) THEN a ELSE b

\* a / b: ZeroDivisionError when b is zero
RDiv(a, b) == IF b.n = 0 THEN Exc("ZeroDivisionError") ELSE Rat(a.n * b.d, a.d * b.n)

\* sum() of a list of float, halving the list
RECURSIVE SumRats(_)
SumRats(s) ==
    IF s = <<>> THEN RZero
    ELSE IF Len(s) = 1 THEN s[1]
    ELSE RAdd(SumRats(SubSeq(s, 1, Len(s) \div 2)),
              SumRats(SubSeq(s, Len(s) \div 2 + 1, Len(s))))

RECURSIVE Pow10(_)
Pow10(k) == IF k = 0 THEN 1 ELSE 10 * Pow10(k - 1)

\* floor of a rational
RFloor(a) == IF a.n >= 0 THEN a.n \div a.d ELSE -((-a.n + a.d - 1) \div a.d)

\* round(x, k): nearest multiple of 10^-k, ties to the even multiple
round(x, k) ==
    LET scaled == RMul(x, RInt(Pow10(k)))
        lo == RFloor(scaled)
        frac2 == RMul(RSub(scaled, RInt(lo)), RInt(2))
        up == IF RLess(ROne, frac2) THEN 1
              ELSE IF RLess(frac2, ROne) THEN 0
              ELSE IF lo % 2 = 0 THEN 0 ELSE 1
    IN  Rat(lo + up, Pow10(k))

\* ------------------------------------------------------------------------
\* Product records and the products table
\* ------------------------------------------------------------------------
\* history records as the persistence layer stores them (JSON objects)
RecJan10 == [date |-> IsoDate(2024, 1, 10), sales |-> 10, price |-> RInt(5), returns |-> 1]
RecJan20 == [date |-> IsoDate(2024, 1, 20), sales |-> 5, price |-> RInt(5), returns |-> 0]
RecFeb05 == [date |-> IsoDate(2024, 2, 5), sales |-> 8, price |-> RInt(6), returns |-> 0]
\* no sales, price 0, more returns than sales
RecZero == [date |-> IsoDate(2023, 12, 15), sales |-> 0, price |-> RZero, returns |-> 2]
\* no returns field, date-time form
RecNoReturns == [date |-> IsoDateTime(2024, 2, 28, 10, 0), sales |-> 4, price |-> Rat(5, 2)]
\* a date that cannot be parsed
RecBadDate == [date |-> IsoDate(2024, 13, 45), sales |-> 3, price |-> RInt(5), returns |-> 0]

\* a second record of 2024-01-10, at another price
RecJan10Promo == [date |-> IsoDate(2024, 1, 10), sales |-> 10, price |-> RInt(4), returns |-> 1]

Records == {RecJan10, RecJan20, RecFeb05, RecZero, RecNoReturns, RecBadDate, RecJan10Promo}

ScenarioHistory == <<RecJan10, RecJan20, RecFeb05>>

SeqsUpTo(S, n) == UNION {[1..k -> S] : k \in 0..n}

\* daily records: day i of 2023, counting 28 days to a month
DaysPerMonth == 28
DayDate(i) == IsoDate(2023, ((i - 1) \div DaysPerMonth) + 1, ((i - 1) % DaysPerMonth) + 1)
DailyRecord(i, sales) == [date |-> DayDate(i), sales |-> sales, price |-> RInt(5), returns |-> 0]

\* n days with one sale a day
UniformHistory(n) == [i \in 1..n |-> DailyRecord(i, 1)]
\* one sale on the first day and two on day 91: the second quarter doubles
GrowthHistory == [i \in 1..91 |-> DailyRecord(i, IF i = 1 THEN 1 ELSE IF i = 91 THEN 2 ELSE 0)]
\* thirty sales in the first quarter and thirty-one in the second
FlatHistory == [i \in 1..91 |-> DailyRecord(i, IF i <= 30 THEN 1 ELSE IF i = 91 THEN 31 ELSE 0)]

\* histories that span more than one quarter of 90 records
LongLengths == {90, 91, 180, 181}
LongHistories == {UniformHistory(n) : n \in LongLengths} \cup {GrowthHistory, FlatHistory}

\* histories for the edges of the analyzers
EdgeHistories ==
    {\* four quarters of sales 1, 4, 0 and 266: the growth rates are 3 and -1,
     \* and the step that follows the empty quarter has none
     [i \in 1..271 |->
         DailyRecord(i, IF i = 1 THEN 1 ELSE IF i = 91 THEN 4
                        ELSE IF i = 271 THEN 266 ELSE 0)],
     \* an empty first quarter, one sale in the second
     [i \in 1..91 |-> DailyRecord(i, IF i = 91 THEN 1 ELSE 0)],
     \* four returns for each sale, and a price that moves
     <<[DailyRecord(1, 1) EXCEPT !.returns = 4],
       [DailyRecord(2, 1) EXCEPT !.returns = 4, !.price = RInt(6)]>>,
     \* January of two years and February: the monthly averages are 11 and 9
     \* around an overall average of 10
     <<DailyRecord(1, 12), RecJan10, RecFeb05,
       [RecFeb05 EXCEPT !.date = IsoDate(2024, 2, 6), !.sales = 10]>>}

Histories ==
    SeqsUpTo(Records, MaxHist) \cup {ScenarioHistory} \cup LongHistories \cup EdgeHistories

\* the value of the history column: NULL or a JSON array
NullHistory == [isnull |-> TRUE, items |-> <<>>]
ListHistory(h) == [isnull |-> FALSE, items |-> h]

\* product identifiers as the handlers pass them to the tools
PidWidget == <<119>>
PidGhost == <<103>>
PidBlank == <<ChSpace>>
ProductIds == {PidWidget, PidGhost, PidBlank}

\* a row of the products table, or no row
NoRow == [present |-> FALSE, history |-> NullHistory]
Row(h) == [present |-> TRUE, history |-> h]

\* bool(x) of a history value: None and [] are falsy
Truthy(h) == ~h.isnull /\ h.items # <<>>

\* a row dict comes back even when no row matches
load_product_data_always_a_row(table, product_id) ==
    Return([history |-> table[product_id].history])

\* load_product_data: None when no row matches, else the row as a dict
\* (the dict always has the key 'history'; its value may be None)
load_product_data(table, product_id) ==
    IF ~table[product_id].present
    THEN ReturnNone
    ELSE Return([history |-> table[product_id].history])

\* ------------------------------------------------------------------------
\* dicts in insertion order: sequences of [k, v]
\* ------------------------------------------------------------------------
DictIndex(d, k) == CHOOSE i \in 1..Len(d) : d[i].k = k
DictGet(d, k) == d[DictIndex(d, k)].v
DictKeys(d) == [i \in 1..Len(d) |-> d[i].k]
DictValues(d) == [i \in 1..Len(d) |-> d[i].v]

RECURSIVE Flatten(_)
Flatten(ss) == IF ss = <<>> THEN <<>> ELSE Head(ss) \o Flatten(Tail(ss))

\* ------------------------------------------------------------------------
\* analysis/seasonality.py
\* ------------------------------------------------------------------------
\* monthly_patterns once every date is parsed: the months in the order they
\* first occur, each with the sales of its records in input order
MonthlyPatterns(history, months) ==
    LET firsts == FirstOccurrences(months)
    IN  [k \in 1..Len(firsts) |->
            [k |-> months[firsts[k]],
             v |-> LET at == Occurrences(months, months[firsts[k]])
                   IN  [x \in 1..Len(at) |-> history[at[x]].sales]]]

\* the grouping with a key for each month of each year
GroupSalesByYearMonth(history) ==
    LET dates == List([i \in 1..Len(history) |-> fromisoformat(history[i].date)])
    IN  IF \E i \in 1..Len(history) : IsExc(dates[i]) THEN Exc("ValueError")
        ELSE [val |-> MonthlyPatterns(history,
                          List([i \in 1..Len(history) |->
                                   12 * (dates[i].year - 2023) + dates[i].month]))]

\* the grouping loop: monthly_patterns[month].append(entry['sales']);
\* datetime.fromisoformat raises ValueError on the first date it cannot parse
GroupSalesByMonth(history) ==
    LET dates == List([i \in 1..Len(history) |-> fromisoformat(history[i].date)])
    IN  IF \E i \in 1..Len(history) : IsExc(dates[i]) THEN Exc("ValueError")
        ELSE [val |-> MonthlyPatterns(history,
                          List([i \in 1..Len(history) |-> dates[i].month]))]

\* the strength without the cap at 1.0
calculate_seasonality_strength_uncapped(seasonality_indices) ==
    IF seasonality_indices = <<>> THEN RZero
    ELSE LET values == DictValues(seasonality_indices)
             variances == [i \in 1..Len(values) |->
                              RMul(RSub(values[i], ROne), RSub(values[i], ROne))]
             avg_variance == RDiv(SumRats(variances), RInt(Len(variances)))
         IN  RMul(avg_variance, RInt(2))

calculate_seasonality_strength(seasonality_indices) ==
    IF seasonality_indices = <<>> THEN RZero
    ELSE LET values == DictValues(seasonality_indices)
             variances == [i \in 1..Len(values) |->
                              RMul(RSub(values[i], ROne), RSub(values[i], ROne))]
             avg_variance == RDiv(SumRats(variances), RInt(Len(variances)))
         IN  RMin(ROne, RMul(avg_variance, RInt(2)))

PeakThreshold == Rat(11, 10)
LowThreshold == Rat(9, 10)

\* the peak months with an index of 1.1 counted in
RECURSIVE PeakMonthsInclusive(_)
PeakMonthsInclusive(indices) ==
    IF indices = <<>> THEN <<>>
    ELSE (IF RLeq(PeakThreshold, Head(indices).v) THEN <<Head(indices).k>> ELSE <<>>)
         \o PeakMonthsInclusive(Tail(indices))

\* [month for month, index in seasonality_indices.items() if index > 1.1]
RECURSIVE PeakMonths(_)
PeakMonths(indices) ==
    IF indices = <<>> THEN <<>>
    ELSE (IF RLess(PeakThreshold, Head(indices).v) THEN <<Head(indices).k>> ELSE <<>>)
         \o PeakMonths(Tail(indices))

\* [month for month, index in seasonality_indices.items() if index < 0.9]
RECURSIVE LowMonths(_)
LowMonths(indices) ==
    IF indices = <<>> THEN <<>>
    ELSE (IF RLess(Head(indices).v, LowThreshold) THEN <<Head(indices).k>> ELSE <<>>)
         \o LowMonths(Tail(indices))

\* the result dict of calculate_seasonality_metrics
SeasonalityData(seasonality_indices, monthly_averages, overall_average) ==
    [seasonality_patterns |->
        [monthly_indices |-> seasonality_indices,
         peak_months |-> PeakMonths(seasonality_indices),
         low_months |-> LowMonths(seasonality_indices),
         seasonality_strength |-> calculate_seasonality_strength(seasonality_indices)],
     metrics |->
        [overall_average_sales |-> overall_average,
         monthly_averages |-> monthly_averages]]

\* seasonality_indices[month] = avg_sales / overall_average if overall_average > 0 else 0
SeasonalityIndices(monthly_averages, overall_average) ==
    [i \in 1..Len(monthly_averages) |->
        [k |-> monthly_averages[i].k,
         v |-> IF RLess(RZero, overall_average)
               THEN RDiv(monthly_averages[i].v, overall_average)
               ELSE RZero]]

\* monthly_averages[month] = sum(sales) / len(sales)
MonthlyAverages(monthly_patterns) ==
    [i \in 1..Len(monthly_patterns) |->
        [k |-> monthly_patterns[i].k,
         v |-> RDiv(RInt(SumInts(monthly_patterns[i].v)), RInt(Len(monthly_patterns[i].v)))]]

\* overall_average = sum(all_sales) / len(all_sales) if all_sales else 0
OverallAverage(all_sales) ==
    IF all_sales # <<>> THEN RDiv(RInt(SumInts(all_sales)), RInt(Len(all_sales))) ELSE RZero

\* calculate_seasonality_metrics after the grouping loop
SeasonalityOfAverages(monthly_averages, overall_average) ==
    SeasonalityData(SeasonalityIndices(monthly_averages, overall_average),
                    monthly_averages, overall_average)

SeasonalityOfPatterns(monthly_patterns) ==
    SeasonalityOfAverages(MonthlyAverages(monthly_patterns),
                          OverallAverage(Flatten(DictValues(monthly_patterns))))

SeasonalityOfGroups(grouped) ==
    IF IsExc(grouped) THEN grouped ELSE SeasonalityOfPatterns(grouped.val)

calculate_seasonality_metrics(history) ==
    IF ~Truthy(history) THEN [seasonality_patterns |-> <<>>]
    ELSE SeasonalityOfGroups(GroupSalesByMonth(history.items))

\* month_names[m]
month_names(m) ==
    CASE m = 1 -> "January" [] m = 2 -> "February" [] m = 3 -> "March"
      [] m = 4 -> "April" [] m = 5 -> "May" [] m = 6 -> "June"
      [] m = 7 -> "July" [] m = 8 -> "August" [] m = 9 -> "September"
      [] m = 10 -> "October" [] m = 11 -> "November" [] m = 12 -> "December"

StrongThreshold == Rat(1, 2)
ModerateThreshold == Rat(1, 5)
ConfidenceScale == Rat(3, 2)

\* the dict interpret_seasonality returns
Interpretation(strength, peak_months, low_months) ==
    [seasonality_type |-> IF RLess(StrongThreshold, strength) THEN "strong"
                          ELSE IF RLess(ModerateThreshold, strength) THEN "moderate"
                          ELSE "weak",
     peak_seasons |-> [i \in 1..Len(peak_months) |-> month_names(peak_months[i])],
     low_seasons |-> [i \in 1..Len(low_months) |-> month_names(low_months[i])],
     confidence_score |-> RMin(ROne, RMul(strength, ConfidenceScale))]

InterpretPatterns(patterns) ==
    IF "seasonality_strength" \notin DOMAIN patterns THEN Exc("KeyError")
    ELSE Interpretation(patterns.seasonality_strength, patterns.peak_months,
                        patterns.low_months)

interpret_seasonality(seasonality_data) ==
    InterpretPatterns(seasonality_data.seasonality_patterns)

\* seasonality_data['interpretation'] = ...; return seasonality_data
WithInterpretation(seasonality_data, interpretation) ==
    IF IsExc(interpretation) THEN Raise(interpretation.exc)
    ELSE Return(seasonality_data @@ [interpretation |-> interpretation])

SeasonalityOfData(seasonality_data) ==
    IF IsExc(seasonality_data) THEN Raise(seasonality_data.exc)
    ELSE WithInterpretation(seasonality_data, interpret_seasonality(seasonality_data))

SeasonalityOfProduct(product) ==
    IF product.kind = "none" \/ "history" \notin DOMAIN product.value
    THEN ReturnNone
    ELSE SeasonalityOfData(calculate_seasonality_metrics(product.value.history))

get_product_seasonality(table, product_id) ==
    SeasonalityOfProduct(load_product_data(table, product_id))

\* ------------------------------------------------------------------------
\* analysis/demand.py
\* ------------------------------------------------------------------------
\* datetime.fromisoformat(entry['date']).replace(tzinfo=timezone.utc)
EntryDate(entry) == replace_tzinfo_utc(fromisoformat(entry.date))

\* the filter loop with the end of the range left out: start <= entry_date < end
FilterHistoryExclusiveEnd(history, start, end) ==
    IF \E i \in 1..Len(history) : IsExc(fromisoformat(history[i].date))
    THEN Exc("ValueError")
    ELSE LET Keep(entry) == DtLeq(start, EntryDate(entry)) /\ DtLess(EntryDate(entry), end)
         IN  [val |-> SelectSeq(history, Keep)]

\* the filter loop: entries with start <= entry_date <= end, in input order;
\* datetime.fromisoformat raises ValueError on the first date it cannot parse
FilterHistory(history, start, end) ==
    IF \E i \in 1..Len(history) : IsExc(fromisoformat(history[i].date))
    THEN Exc("ValueError")
    ELSE LET Keep(entry) == DtLeq(start, EntryDate(entry)) /\ DtLeq(EntryDate(entry), end)
         IN  [val |-> SelectSeq(history, Keep)]

NewMonth == [sales |-> 0, revenue |-> RZero, returns |-> 0, average_price |-> RZero,
             num_transactions |-> 0]

\* entry.get('returns', 0)
GetReturns(entry) == IF "returns" \in DOMAIN entry THEN entry.returns ELSE 0

\* monthly_data[month_key] after the grouping loop
MonthTotals(filtered_history, keys, month_key) ==
    LET at == Occurrences(keys, month_key)
    IN  [NewMonth EXCEPT
            !.sales = @ + SumInts([x \in 1..Len(at) |-> filtered_history[at[x]].sales]),
            !.revenue = RAdd(@, SumRats([x \in 1..Len(at) |->
                                RMul(RInt(filtered_history[at[x]].sales),
                                     filtered_history[at[x]].price)])),
            !.returns = @ + SumInts([x \in 1..Len(at) |-> GetReturns(filtered_history[at[x]])]),
            !.num_transactions = @ + Len(at)]

\* the grouping loop over filtered_history: the month keys in the order they
\* first occur
GroupByMonthKey(filtered_history) ==
    LET keys == List([i \in 1..Len(filtered_history) |->
                         strftime_Ym(EntryDate(filtered_history[i]))])
        firsts == FirstOccurrences(keys)
    IN  [k \in 1..Len(firsts) |->
            [k |-> keys[firsts[k]],
             v |-> MonthTotals(filtered_history, keys, keys[firsts[k]])]]

\* sorted() of a list of str: insertion sort, stable
RECURSIVE InsertStr(_, _)
InsertStr(sortedKeys, key) ==
    IF sortedKeys = <<>> THEN <<key>>
    ELSE IF StrLess(key, Head(sortedKeys)) THEN <<key>> \o sortedKeys
    ELSE <<Head(sortedKeys)>> \o InsertStr(Tail(sortedKeys), key)

RECURSIVE SortedStrs(_)
SortedStrs(keys) ==
    IF keys = <<>> THEN <<>>
    ELSE InsertStr(SortedStrs(SubSeq(keys, 1, Len(keys) - 1)), keys[Len(keys)])

\* one entry of time_series with return_rate rounded to two decimals
MonthEntryCoarseRate(month, data) ==
    LET avg_price == IF data.sales > 0 THEN RDiv(data.revenue, RInt(data.sales)) ELSE RZero
    IN  [month |-> month,
         total_sales |-> data.sales,
         total_revenue |-> round(data.revenue, 2),
         total_returns |-> data.returns,
         average_price |-> round(avg_price, 2),
         return_rate |-> IF data.sales > 0
                         THEN round(RDiv(RInt(data.returns), RInt(data.sales)), 2)
                         ELSE RZero]

\* one entry of time_series
MonthEntry(month, data) ==
    LET avg_price == IF data.sales > 0 THEN RDiv(data.revenue, RInt(data.sales)) ELSE RZero
    IN  [month |-> month,
         total_sales |-> data.sales,
         total_revenue |-> round(data.revenue, 2),
         total_returns |-> data.returns,
         average_price |-> round(avg_price, 2),
         return_rate |-> IF data.sales > 0
                         THEN round(RDiv(RInt(data.returns), RInt(data.sales)), 4)
                         ELSE RZero]

\* the time series in the order the months were first met
TimeSeriesUnsorted(monthly_data) ==
    LET months == DictKeys(monthly_data)
    IN  [i \in 1..Len(months) |-> MonthEntry(months[i], DictGet(monthly_data, months[i]))]

\* for month in sorted(monthly_data.keys()): time_series.append({...})
TimeSeries(monthly_data) ==
    LET months == SortedStrs(DictKeys(monthly_data))
    IN  [i \in 1..Len(months) |-> MonthEntry(months[i], DictGet(monthly_data, months[i]))]

\* the summary with total_sales summed over the wrong field of the entries
DemandSummaryOverReturns(time_series) ==
    LET sales == [i \in 1..Len(time_series) |-> time_series[i].total_sales]
        returns == [i \in 1..Len(time_series) |-> time_series[i].total_returns]
        revenue == [i \in 1..Len(time_series) |-> time_series[i].total_revenue]
    IN  [total_months |-> Len(time_series),
         total_sales |-> SumInts(returns),
         total_revenue |-> round(SumRats(revenue), 2),
         average_monthly_sales |->
             IF time_series # <<>>
             THEN round(RDiv(RInt(SumInts(sales)), RInt(Len(time_series))), 2)
             ELSE RZero]

DemandSummary(time_series) ==
    LET sales == [i \in 1..Len(time_series) |-> time_series[i].total_sales]
        revenue == [i \in 1..Len(time_series) |-> time_series[i].total_revenue]
    IN  [total_months |-> Len(time_series),
         total_sales |-> SumInts(sales),
         total_revenue |-> round(SumRats(revenue), 2),
         average_monthly_sales |->
             IF time_series # <<>>
             THEN round(RDiv(RInt(SumInts(sales)), RInt(Len(time_series))), 2)
             ELSE RZero]

\* the dict get_product_demand returns
DemandResult(time_series) ==
    Return([time_series |-> time_series, summary |-> DemandSummary(time_series)])

\* get_product_demand after the filter loop; except Exception: return None
DemandOfFiltered(filtered) ==
    IF IsExc(filtered) THEN ReturnNone
    ELSE DemandResult(TimeSeries(GroupByMonthKey(filtered.val)))

\* the try block once start_date and end_date went through fromisoformat
DemandOfRange(history, start, end) ==
    IF IsExc(start) \/ IsExc(end) THEN ReturnNone
    ELSE IF history.isnull THEN ReturnNone
    ELSE DemandOfFiltered(FilterHistory(history.items,
                              replace_tzinfo_utc(start), replace_tzinfo_utc(end)))

DemandOfProduct(product, start_date, end_date) ==
    IF product.kind = "none" \/ "history" \notin DOMAIN product.value
    THEN ReturnNone
    ELSE DemandOfRange(product.value.history,
                       fromisoformat(start_date), fromisoformat(end_date))

get_product_demand(table, product_id, start_date, end_date) ==
    DemandOfProduct(load_product_data(table, product_id), start_date, end_date)

\* ------------------------------------------------------------------------
\* analysis/lifecycle.py
\* ------------------------------------------------------------------------
QuarterSize == 90

\* sorted(history, key=lambda x: x['date']): by the date text, records with
\* equal dates staying in input order
\* for each record, the number of records that sort before it
DatesBefore(history) ==
    List([i \in 1..Len(history) |->
             Cardinality({j \in 1..Len(history) :
                 \/ StrLess(history[j].date, history[i].date)
                 \/ history[j].date = history[i].date /\ j < i})])

\* the record that has k - 1 records before it comes k-th
PlacedBy(history, before) ==
    List([k \in 1..Len(history) |->
             history[CHOOSE i \in 1..Len(history) : before[i] = k - 1]])

SortedByDate(history) == PlacedBy(history, DatesBefore(history))

SalesOf(history) == [i \in 1..Len(history) |-> history[i].sales]

\* the sums over the whole windows of 90 records only, a shorter last window
\* left out
QuartersWholeOnly(history) ==
    [k \in 1..(Len(history) \div QuarterSize) |->
        SumInts(SalesOf(SubSeq(history, (k - 1) * QuarterSize + 1, k * QuarterSize)))]

\* quarters: the sums of sales over history[i:i+90], i = 0, 90, 180, ...
RECURSIVE Quarters(_)
Quarters(history) ==
    IF history = <<>> THEN <<>>
    ELSE <<SumInts(SalesOf(SubSeq(history, 1, Min2(QuarterSize, Len(history)))))>>
         \o Quarters(SubSeq(history, QuarterSize + 1, Len(history)))

\* growth_rates with an entry of 0 for a step whose previous quarter is empty
GrowthRatesZeroFilled(quarters) ==
    [i \in 1..(Len(quarters) - 1) |->
        IF quarters[i] > 0 THEN Rat(quarters[i + 1] - quarters[i], quarters[i]) ELSE RZero]

\* growth_rates: one entry per i >= 1 with quarters[i-1] > 0
RECURSIVE GrowthRates(_)
GrowthRates(quarters) ==
    IF Len(quarters) < 2 THEN <<>>
    ELSE (IF quarters[1] > 0
          THEN <<Rat(quarters[2] - quarters[1], quarters[1])>>
          ELSE <<>>)
         \o GrowthRates(Tail(quarters))

\* the first quarter taken for the peak
MaxIntsFirst(s) == s[1]

RECURSIVE MaxInts(_)
MaxInts(s) == IF Len(s) = 1 THEN s[1] ELSE Max2(Head(s), MaxInts(Tail(s)))

\* x ** 0.5 for 0 <= x < 1, to two decimal places
SqrtScale == 100

RECURSIVE ISqrtFrom(_, _)
ISqrtFrom(n, r) == IF (r + 1) * (r + 1) > n THEN r ELSE ISqrtFrom(n, r + 1)

SqrtBelowOne(x) == Rat(ISqrtFrom((x.n * SqrtScale * SqrtScale) \div x.d, 0), SqrtScale)

calculate_volatility(rates) ==
    IF rates = <<>> THEN RZero
    ELSE LET mean == RDiv(SumRats(rates), RInt(Len(rates)))
             squares == [i \in 1..Len(rates) |->
                            RMul(RSub(rates[i], mean), RSub(rates[i], mean))]
             variance == RDiv(SumRats(squares), RInt(Len(rates)))
         IN  IF RLeq(ROne, variance) THEN ROne ELSE RMin(ROne, SqrtBelowOne(variance))

\* [abs(prices[i] - prices[i-1]) / prices[i-1] for i in range(1, len(prices))]
PriceChanges(prices) ==
    LET changes == [i \in 1..(Len(prices) - 1) |->
                       RDiv(RAbs(RSub(prices[i + 1], prices[i])), prices[i])]
    IN  IF \E i \in 1..(Len(prices) - 1) : IsExc(changes[i])
        THEN Exc("ZeroDivisionError")
        ELSE [val |-> changes]

PriceWeight == Rat(7, 10)
ReturnWeight == Rat(3, 10)

\* the pressure without the cap at 1.0
calculate_competitive_pressure_uncapped(history) ==
    IF history = <<>> THEN RZero
    ELSE LET prices == [i \in 1..Len(history) |-> history[i].price]
             price_changes == PriceChanges(prices)
         IN  IF IsExc(price_changes) THEN price_changes
             ELSE LET price_volatility ==
                          IF price_changes.val # <<>>
                          THEN RDiv(SumRats(price_changes.val), RInt(Len(price_changes.val)))
                          ELSE RZero
                      total_sales == SumInts(SalesOf(history))
                  IN  \* day['returns'] for each day
                      IF \E i \in 1..Len(history) : "returns" \notin DOMAIN history[i]
                      THEN Exc("KeyError")
                      ELSE LET total_returns ==
                                   SumInts([i \in 1..Len(history) |-> history[i].returns])
                               return_rate == IF total_sales > 0
                                              THEN Rat(total_returns, total_sales)
                                              ELSE RZero
                               pressure == RAdd(RMul(PriceWeight, price_volatility),
                                                RMul(ReturnWeight, return_rate))
                           IN  pressure

calculate_competitive_pressure(history) ==
    IF history = <<>> THEN RZero
    ELSE LET prices == [i \in 1..Len(history) |-> history[i].price]
             price_changes == PriceChanges(prices)
         IN  IF IsExc(price_changes) THEN price_changes
             ELSE LET price_volatility ==
                          IF price_changes.val # <<>>
                          THEN RDiv(SumRats(price_changes.val), RInt(Len(price_changes.val)))
                          ELSE RZero
                      total_sales == SumInts(SalesOf(history))
                  IN  \* day['returns'] for each day
                      IF \E i \in 1..Len(history) : "returns" \notin DOMAIN history[i]
                      THEN Exc("KeyError")
                      ELSE LET total_returns ==
                                   SumInts([i \in 1..Len(history) |-> history[i].returns])
                               return_rate == IF total_sales > 0
                                              THEN Rat(total_returns, total_sales)
                                              ELSE RZero
                               pressure == RAdd(RMul(PriceWeight, price_volatility),
                                                RMul(ReturnWeight, return_rate))
                           IN  RMin(ROne, pressure)

calculate_lifecycle_metrics(history) ==
    IF history = <<>> THEN [metrics |-> <<>>]
    ELSE LET quarters == Quarters(history)
             growth_rates == GrowthRates(quarters)
             avg_growth_rate == IF growth_rates # <<>>
                                THEN RDiv(SumRats(growth_rates), RInt(Len(growth_rates)))
                                ELSE RZero
             growth_volatility == calculate_volatility(growth_rates)
             recent_quarter == IF quarters # <<>> THEN quarters[Len(quarters)] ELSE 0
             peak_quarter == IF quarters # <<>> THEN MaxInts(quarters) ELSE 0
             market_saturation == IF peak_quarter > 0
                                  THEN Rat(recent_quarter, peak_quarter)
                                  ELSE RZero
             competitive_pressure == calculate_competitive_pressure(history)
         IN  IF IsExc(competitive_pressure) THEN competitive_pressure
             ELSE [metrics |->
                      [growth_rate |-> avg_growth_rate,
                       growth_volatility |-> growth_volatility,
                       market_saturation |-> market_saturation,
                       competitive_pressure |-> competitive_pressure],
                   stage_start_date |-> history[1].date]

\* metrics.get(key, 0)
MetricOrZero(metrics, key) == IF key \in DOMAIN metrics THEN metrics[key] ELSE RZero

DeclineShare == Rat(1, 10)
MatureGrowth == Rat(1, 20)
GrowthShare == Rat(1, 20)

\* the classification with market_saturation read in the place of market_share
compute_lifecycle_stage_by_saturation(lifecycle_data) ==
    LET metrics == lifecycle_data.metrics
        growth_rate == MetricOrZero(metrics, "growth_rate")
        market_share == MetricOrZero(metrics, "market_saturation")
    IN  IF RLess(growth_rate, RZero) /\ RLess(market_share, DeclineShare) THEN "decline"
        ELSE IF RLess(growth_rate, MatureGrowth) /\ RLeq(DeclineShare, market_share)
             THEN "maturity"
        ELSE IF RLeq(MatureGrowth, growth_rate) /\ RLeq(GrowthShare, market_share)
             THEN "growth"
        ELSE "introduction"

compute_lifecycle_stage(lifecycle_data) ==
    LET metrics == lifecycle_data.metrics
        growth_rate == MetricOrZero(metrics, "growth_rate")
        market_share == MetricOrZero(metrics, "market_share")
    IN  IF RLess(growth_rate, RZero) /\ RLess(market_share, DeclineShare) THEN "decline"
        ELSE IF RLess(growth_rate, MatureGrowth) /\ RLeq(DeclineShare, market_share)
             THEN "maturity"
        ELSE IF RLeq(MatureGrowth, growth_rate) /\ RLeq(GrowthShare, market_share)
             THEN "growth"
        ELSE "introduction"

MinutesPerDay == 1440

\* the evaluation instant is clock, in minutes since 0001-01-01T00:00
compute_days_in_stage(lifecycle_data, clock) ==
    IF "stage_start_date" \notin DOMAIN lifecycle_data \/ lifecycle_data.stage_start_date = <<>>
    THEN [val |-> 0]
    ELSE LET start_date == fromisoformat(lifecycle_data.stage_start_date)
         IN  IF IsExc(start_date) THEN start_date
             ELSE [val |-> Max2(0, (clock - DtMinutes(start_date)) \div MinutesPerDay)]

VolatilityWeight == Rat(2, 5)
SaturationWeight == Rat(3, 10)
PressureWeight == Rat(3, 10)

compute_stage_risk(lifecycle_data) ==
    LET metrics == lifecycle_data.metrics
        growth_volatility == MetricOrZero(metrics, "growth_volatility")
        market_saturation == MetricOrZero(metrics, "market_saturation")
        competitive_pressure == MetricOrZero(metrics, "competitive_pressure")
        risk_score == RAdd(RAdd(RMul(VolatilityWeight, growth_volatility),
                                RMul(SaturationWeight, market_saturation)),
                           RMul(PressureWeight, competitive_pressure))
    IN  RMin(ROne, RMax(RZero, risk_score))

\* the computed metrics with a stage that follows the age of the product
LifecycleResultStageByAge(lifecycle_data, days_in_stage) ==
    IF IsExc(days_in_stage) THEN Raise(days_in_stage.exc)
    ELSE Return(lifecycle_data @@
                [computed |->
                    [current_stage |-> IF days_in_stage.val % 2 = 0 THEN "maturity"
                                       ELSE compute_lifecycle_stage(lifecycle_data),
                     days_in_stage |-> days_in_stage.val,
                     stage_transition_risk |-> compute_stage_risk(lifecycle_data)]])

\* lifecycle_data['computed'] = {...}; return lifecycle_data
LifecycleResult(lifecycle_data, days_in_stage) ==
    IF IsExc(days_in_stage) THEN Raise(days_in_stage.exc)
    ELSE Return(lifecycle_data @@
                [computed |->
                    [current_stage |-> compute_lifecycle_stage(lifecycle_data),
                     days_in_stage |-> days_in_stage.val,
                     stage_transition_risk |-> compute_stage_risk(lifecycle_data)]])

LifecycleOfData(lifecycle_data, clock) ==
    IF IsExc(lifecycle_data) THEN Raise(lifecycle_data.exc)
    ELSE LifecycleResult(lifecycle_data, compute_days_in_stage(lifecycle_data, clock))

\* sorted(None) raises TypeError
LifecycleOfProduct(product, clock) ==
    IF product.kind = "none" \/ "history" \notin DOMAIN product.value
    THEN ReturnNone
    ELSE IF product.value.history.isnull THEN Raise("TypeError")
    ELSE LifecycleOfData(
             calculate_lifecycle_metrics(SortedByDate(product.value.history.items)), clock)

get_product_lifecycle(table, product_id, clock) ==
    LifecycleOfProduct(load_product_data(table, product_id), clock)

\* ------------------------------------------------------------------------
\* tools/base.py, tools/implementations.py
\* ------------------------------------------------------------------------
NoneTime == -1
NoError == "<None>"
InvalidInput == "ValueError: Invalid input parameters"

\* ToolMetrics.__init__ at the instant now
ToolMetrics(now) ==
    [start_time |-> now, computation_time |-> NoneTime, success |-> FALSE, error |-> NoError]

\* complete() that keeps the error of an earlier call when it is given none
complete_keeping_error(m, now, success, error) ==
    [m EXCEPT !.computation_time = now - m.start_time,
              !.success = success,
              !.error = IF error = NoError THEN @ ELSE error]

\* complete() that records the time and the error, not the success
complete_without_success(m, now, success, error) ==
    [m EXCEPT !.computation_time = now - m.start_time,
              !.error = error]

\* ToolMetrics.complete(success, error) at the instant now
complete(m, now, success, error) ==
    [m EXCEPT !.computation_time = now - m.start_time,
              !.success = success,
              !.error = error]

ToolNames == {"product_lifecycle", "product_seasonality", "product_demand"}

\* str.strip() leaves a non-empty str
NonBlank(s) == \E i \in 1..Len(s) : s[i] # ChSpace

\* LifecycleTool.validate_input, SeasonalityTool.validate_input
validate_product_id(product_id) == NonBlank(product_id)

\* validation of the date formats only, without the test start > end
validate_demand_input_formats_only(product_id, start_date, end_date) ==
    IF ~NonBlank(product_id) THEN FALSE
    ELSE LET start == fromisoformat(start_date)
             end == fromisoformat(end_date)
         IN  IF IsExc(start) \/ IsExc(end) THEN FALSE
             ELSE TRUE

\* DemandTool.validate_input
validate_demand_input(product_id, start_date, end_date) ==
    IF ~NonBlank(product_id) THEN FALSE
    ELSE LET start == fromisoformat(start_date)
             end == fromisoformat(end_date)
         IN  IF IsExc(start) \/ IsExc(end) THEN FALSE
             ELSE IF DtLess(end, start) THEN FALSE
             ELSE TRUE

\* success only when the result holds data: an empty time_series counts as none
ResultTruthyWithData(result) ==
    /\ result.kind = "return"
    /\ DOMAIN result.value # {}
    /\ "time_series" \in DOMAIN result.value => result.value.time_series # <<>>

\* bool(result) of what an analyzer returned
ResultTruthy(result) == result.kind = "return" /\ DOMAIN result.value # {}

\* the body of Tool.execute up to the call of metrics.complete:
\* result is what the analyzer returned or the exception on its way out,
\* queries the number of times the product was loaded
LifecycleExecute(table, product_id, now) ==
    IF ~validate_product_id(product_id)
    THEN [result |-> Raise(InvalidInput), queries |-> 0]
    ELSE [result |-> get_product_lifecycle(table, product_id, now), queries |-> 1]

SeasonalityExecute(table, product_id) ==
    IF ~validate_product_id(product_id)
    THEN [result |-> Raise(InvalidInput), queries |-> 0]
    ELSE [result |-> get_product_seasonality(table, product_id), queries |-> 1]

DemandExecute(table, product_id, start_date, end_date) ==
    IF ~validate_demand_input(product_id, start_date, end_date)
    THEN [result |-> Raise(InvalidInput), queries |-> 0]
    ELSE [result |-> get_product_demand(table, product_id, start_date, end_date),
          queries |-> 1]

\* the history as list.sort() in the place of sorted() would leave it
HistoryAfterSortInPlace(tool, history) ==
    IF tool = "product_lifecycle" /\ ~history.isnull
    THEN ListHistory(SortedByDate(history.items))
    ELSE history

\* the history of the loaded product as the analyzer leaves it: lifecycle
\* passes it to sorted(), which builds a new list; seasonality and demand read
\* its entries in a for loop and append to lists and dicts of their own
HistoryAfter(tool, history) == history

\* ------------------------------------------------------------------------
\* handlers/request_handlers.py
\* ------------------------------------------------------------------------
RequestTypes == {"analyze_product_lifecycle", "analyze_product_seasonality",
                 "analyze_product_demand", "other"}

ConfidenceThreshold == Rat(7, 10)
Confidences == {Rat(1, 2), Rat(7, 10)}

ToolOf(request_type) ==
    CASE request_type = "analyze_product_lifecycle" -> "product_lifecycle"
      [] request_type = "analyze_product_seasonality" -> "product_seasonality"
      [] request_type = "analyze_product_demand" -> "product_demand"

\* product identifiers as the extraction step returns them
RawProductIds == {<<87>>, <<103>>, <<ChUnderscore>>}

\* details.product_id.replace('_', ' ').lower()
CleanProductId(raw) ==
    [i \in 1..Len(raw) |->
        IF raw[i] = ChUnderscore THEN ChSpace
        ELSE IF raw[i] >= 65 /\ raw[i] <= 90 THEN raw[i] + 32
        ELSE raw[i]]

\* start and end dates as the extraction step returns them
DateInputs == {IsoDate(2023, 12, 1), IsoDate(2024, 1, 1), IsoDate(2024, 1, 20),
               IsoDate(2024, 2, 28),
               IsoDateTime(2024, 2, 28, 10, 0), <<110, 47, 97>>}

NoData == [isnull |-> TRUE]

EcommerceResponse(success, message, analysis_data) ==
    [success |-> success, message |-> message, analysis_data |-> analysis_data]

NoResponse == [success |-> FALSE, message |-> "<no response>", analysis_data |-> NoData]
NoRequest == [request_type |-> "none"]
NoCall == [tool |-> "none"]

\* ------------------------------------------------------------------------
\* The service as a state machine
\* ------------------------------------------------------------------------
Threads == {1, 2}
MainThread == 1
MaxDuration == 1

\* the instant the tool repository is built: 2025-12-31T23:59, a minute before
\* the day changes
ClockStart == DtMinutes(fromisoformat(IsoDateTime(2025, 12, 31, 23, 59)))

VARIABLES
    table,      \* the products table
    clock,      \* datetime.now(), minutes since 0001-01-01T00:00
    metrics,    \* tool name -> the ToolMetrics of the registered tool
    pc,         \* thread -> its position in process_ecommerce_request
    req,        \* thread -> the request it is serving
    call,       \* thread -> the tool call in progress
    response,   \* thread -> the EcommerceResponse it returned
    served      \* number of requests answered so far

vars == <<table, clock, metrics, pc, req, call, response, served>>

Tables(histories) ==
    {[p \in ProductIds |-> IF p = PidWidget THEN Row(h) ELSE NoRow] :
        h \in {ListHistory(x) : x \in histories} \cup {NullHistory}}

InitWith(histories) ==
    /\ table \in Tables(histories)
    /\ clock = ClockStart
    /\ metrics = [n \in ToolNames |-> ToolMetrics(ClockStart)]
    /\ pc = [t \in Threads |-> "idle"]
    /\ req = [t \in Threads |-> NoRequest]
    /\ call = [t \in Threads |-> NoCall]
    /\ response = [t \in Threads |-> NoResponse]
    /\ served = 0

Init == InitWith(Histories)

Active == Cardinality({t \in Threads : pc[t] # "idle"})

\* routing that hands every request of an analysis type to its handler,
\* whatever the confidence
RouteWithoutThreshold(t) ==
    /\ pc[t] = "idle"
    /\ served + Active < MaxRequests
    /\ \E request_type \in RequestTypes, confidence_score \in Confidences :
          /\ req' = [req EXCEPT ![t] = [request_type |-> request_type,
                                         confidence_score |-> confidence_score]]
          /\ IF request_type = "other"
             THEN /\ response' = [response EXCEPT ![t] = EcommerceResponse(FALSE,
                         "Unsupported request type", NoData)]
                  /\ pc' = [pc EXCEPT ![t] = "done"]
             ELSE /\ response' = response
                  /\ pc' = [pc EXCEPT ![t] = "handle"]
    /\ UNCHANGED <<table, clock, metrics, call, served>>

\* process_ecommerce_request up to the call of the handler
Route(t) ==
    /\ pc[t] = "idle"
    /\ served + Active < MaxRequests
    /\ \E request_type \in RequestTypes, confidence_score \in Confidences :
          /\ req' = [req EXCEPT ![t] = [request_type |-> request_type,
                                         confidence_score |-> confidence_score]]
          /\ IF RLess(confidence_score, ConfidenceThreshold)
             THEN /\ response' = [response EXCEPT ![t] = EcommerceResponse(FALSE,
                         "Unable to understand request with sufficient confidence", NoData)]
                  /\ pc' = [pc EXCEPT ![t] = "done"]
             ELSE IF request_type = "other"
             THEN /\ response' = [response EXCEPT ![t] = EcommerceResponse(FALSE,
                         "Unsupported request type", NoData)]
                  /\ pc' = [pc EXCEPT ![t] = "done"]
             ELSE /\ response' = response
                  /\ pc' = [pc EXCEPT ![t] = "handle"]
    /\ UNCHANGED <<table, clock, metrics, call, served>>

\* handle_*_analysis from the extraction of the details to the point where
\* Tool.execute is about to call metrics.complete
Execute(t) ==
    /\ pc[t] = "handle"
    /\ \E raw \in RawProductIds, start_date \in DateInputs, end_date \in DateInputs,
          duration \in 1..MaxDuration :
          LET product_id == CleanProductId(raw)
              tool == ToolOf(req[t].request_type)
              isDemand == tool = "product_demand"
              run == CASE tool = "product_lifecycle" ->
                              LifecycleExecute(table, product_id, clock)
                       [] tool = "product_seasonality" ->
                              SeasonalityExecute(table, product_id)
                       [] tool = "product_demand" ->
                              DemandExecute(table, product_id, start_date, end_date)
          IN  /\ isDemand \/ (start_date = <<>> \/ start_date = IsoDate(2024, 1, 1))
              /\ isDemand \/ (end_date = <<>> \/ end_date = IsoDate(2024, 1, 1))
              /\ call' = [call EXCEPT ![t] =
                             [tool |-> tool,
                              product_id |-> product_id,
                              start_date |-> IF isDemand THEN start_date ELSE <<>>,
                              end_date |-> IF isDemand THEN end_date ELSE <<>>,
                              started |-> clock,
                              result |-> run.result,
                              queries |-> run.queries,
                              history |-> IF run.queries = 1
                                          THEN HistoryAfter(tool, table[product_id].history)
                                          ELSE table[product_id].history]]
              /\ clock' = clock + duration
    /\ pc' = [pc EXCEPT ![t] = "complete"]
    /\ UNCHANGED <<table, metrics, req, response, served>>

HandlerNoun(tool) ==
    CASE tool = "product_lifecycle" -> "lifecycle"
      [] tool = "product_seasonality" -> "seasonality"
      [] tool = "product_demand" -> "demand"

\* Tool.execute from metrics.complete to its return or raise, and the
\* handler's answer when execute raised or returned None
Complete(t) ==
    /\ pc[t] = "complete"
    /\ LET c == call[t]
           success == ResultTruthy(c.result)
       IN  IF c.result.kind = "raise"
           THEN /\ metrics' = [metrics EXCEPT ![c.tool] =
                                  complete(@, clock, FALSE, c.result.exc)]
                /\ response' = [response EXCEPT ![t] = EcommerceResponse(FALSE,
                                  "Error analyzing " \o HandlerNoun(c.tool), NoData)]
                /\ pc' = [pc EXCEPT ![t] = "done"]
           ELSE /\ metrics' = [metrics EXCEPT ![c.tool] =
                                  complete(@, clock, success, NoError)]
                /\ IF ~success
                   THEN /\ response' = [response EXCEPT ![t] = EcommerceResponse(FALSE,
                                          "Product not found", NoData)]
                        /\ pc' = [pc EXCEPT ![t] = "done"]
                   ELSE /\ response' = response
                        /\ pc' = [pc EXCEPT ![t] = "respond"]
    /\ UNCHANGED <<table, clock, req, call, served>>

\* the handler builds the response of a successful analysis from the data
\* execute returned and from the metrics of the tool
Respond(t) ==
    /\ pc[t] = "respond"
    /\ LET c == call[t]
       IN  response' = [response EXCEPT ![t] = EcommerceResponse(TRUE,
               "Analyzed " \o HandlerNoun(c.tool),
               [isnull |-> FALSE,
                result |-> c.result.value,
                metrics |-> [computation_time |-> metrics[c.tool].computation_time,
                             success |-> metrics[c.tool].success]])]
    /\ pc' = [pc EXCEPT ![t] = "done"]
    /\ UNCHANGED <<table, clock, metrics, req, call, served>>

\* process_ecommerce_request has returned; the thread takes the next request
Finish(t) ==
    /\ pc[t] = "done"
    /\ pc' = [pc EXCEPT ![t] = "idle"]
    /\ req' = [req EXCEPT ![t] = NoRequest]
    /\ call' = [call EXCEPT ![t] = NoCall]
    /\ response' = [response EXCEPT ![t] = NoResponse]
    /\ served' = served + 1
    /\ UNCHANGED <<table, clock, metrics>>

Step(t) == Route(t) \/ Execute(t) \/ Complete(t) \/ Respond(t) \/ Finish(t)

\* the command-line loop of main.py: one request at a time
Next == Step(MainThread)

Spec == Init /\ [][Next]_vars

\* two threads serving requests through the one global tool repository
ConcHistories == {ScenarioHistory}

InitConc == InitWith(ConcHistories)

NextConc == \E t \in Threads : Step(t)

SpecConc == InitConc /\ [][NextConc]_vars

\* ------------------------------------------------------------------------
\* Vocabulary of the properties
\* ------------------------------------------------------------------------
WidgetHistory == table[PidWidget].history

\* thread t has called the analyzer of the tool for the stored product
Analysed(t, tool) ==
    /\ call[t].tool = tool
    /\ call[t].queries = 1
    /\ call[t].product_id = PidWidget

Parses(text) == ~IsExc(fromisoformat(text))
AllDatesParse(history) == \A i \in 1..Len(history) : Parses(history[i].date)

\* the instant a date text denotes, in minutes
Instant(text) == DtMinutes(fromisoformat(text))

\* indices of the records of history whose date lies in [start_date, end_date]
InRange(history, start_date, end_date) ==
    {i \in 1..Len(history) :
        /\ Instant(start_date) <= Instant(history[i].date)
        /\ Instant(history[i].date) <= Instant(end_date)}

\* the record falls in the calendar month that the key 'YYYY-MM' names
InMonth(entry, month_key) ==
    /\ fromisoformat(entry.date).year = DigitsValue(SubSeq(month_key, 1, 4))
    /\ fromisoformat(entry.date).month = DigitsValue(SubSeq(month_key, 6, 7))

RECURSIVE SalesAt(_, _)
SalesAt(history, I) ==
    IF I = {} THEN 0
    ELSE LET i == CHOOSE x \in I : TRUE
         IN  history[i].sales + SalesAt(history, I \ {i})

RECURSIVE TotalSalesAt(_, _)
TotalSalesAt(time_series, K) ==
    IF K = {} THEN 0
    ELSE LET k == CHOOSE x \in K : TRUE
         IN  time_series[k].total_sales + TotalSalesAt(time_series, K \ {k})

DemandReturned(t) == call[t].tool = "product_demand" /\ call[t].result.kind = "return"

ErrorMessages == {"Error analyzing lifecycle", "Error analyzing seasonality",
                  "Error analyzing demand"}

\* ------------------------------------------------------------------------
\* Properties
\* ------------------------------------------------------------------------
\* C1: for a product whose history is present but empty, get_product_seasonality
\* does not raise; it returns the default result with empty pattern maps and
\* an interpretation.
C1_EmptyHistorySeasonalityDefault ==
    \A t \in Threads :
        (Analysed(t, "product_seasonality") /\ WidgetHistory = ListHistory(<<>>))
        => /\ call[t].result.kind = "return"
           /\ call[t].result.value.seasonality_patterns = <<>>
           /\ "interpretation" \in DOMAIN call[t].result.value

\* C2: for a product whose history is present but empty, get_product_lifecycle
\* returns metrics with the four keys growth_rate, growth_volatility,
\* market_saturation and competitive_pressure all 0, and the stage
\* "introduction".
C2_EmptyHistoryLifecyclePopulated ==
    \A t \in Threads :
        (Analysed(t, "product_lifecycle") /\ WidgetHistory = ListHistory(<<>>))
        => /\ call[t].result.kind = "return"
           /\ call[t].result.value.computed.current_stage = "introduction"
           /\ {"growth_rate", "growth_volatility", "market_saturation",
               "competitive_pressure"} \subseteq DOMAIN call[t].result.value.metrics
           /\ call[t].result.value.metrics.growth_rate = RZero
           /\ call[t].result.value.metrics.growth_volatility = RZero
           /\ call[t].result.value.metrics.market_saturation = RZero
           /\ call[t].result.value.metrics.competitive_pressure = RZero

\* C3: a history of exactly one record, whatever its sales (0 included),
\* yields seasonality_strength = 0.
C3_SingleRecordStrengthZero ==
    \A t \in Threads :
        (/\ Analysed(t, "product_seasonality")
         /\ ~WidgetHistory.isnull
         /\ Len(WidgetHistory.items) = 1
         /\ AllDatesParse(WidgetHistory.items))
        => /\ call[t].result.kind = "return"
           /\ call[t].result.value.seasonality_patterns.seasonality_strength = RZero

\* C4: when a record of the history has a date that cannot be parsed, every
\* analyzer fails the call with an error that reaches the caller as an error
\* answer, never as a result and never as "not found".
C4_MalformedDateFailsCall ==
    \A t \in Threads :
        (/\ \E tool \in ToolNames : Analysed(t, tool)
         /\ ~WidgetHistory.isnull
         /\ ~AllDatesParse(WidgetHistory.items))
        => /\ call[t].result.kind = "raise"
           /\ pc[t] = "done" => response[t].message \in ErrorMessages

\* C5: no analyzer call ends in a division fault.
C5_NoDivisionFault ==
    \A t \in Threads :
        call[t].tool # "none"
        => ~(call[t].result.kind = "raise" /\ call[t].result.exc = "ZeroDivisionError")

\* C6: the metrics in a response are those of the invocation that produced
\* it: a response with success = True never carries metrics.success = False.
C6_ResponseCarriesOwnMetrics ==
    \A t \in Threads :
        (pc[t] = "done" /\ response[t].success)
        => response[t].analysis_data.metrics.success = TRUE

\* C7: in every demand result, each bucket holds exactly the sales of the
\* records of its calendar month whose date lies in [start, end], both ends
\* included; every such record falls in exactly one bucket, and a bucket
\* exists only for a month with such a record.
C7_DemandDateFiltering ==
    \A t \in Threads :
        (DemandReturned(t) /\ call[t].queries = 1)
        => LET history == WidgetHistory.items
               time_series == call[t].result.value.time_series
               inRange == InRange(history, call[t].start_date, call[t].end_date)
           IN  /\ \A k \in 1..Len(time_series) :
                     LET I == {i \in inRange : InMonth(history[i], time_series[k].month)}
                     IN  /\ I # {}
                         /\ time_series[k].total_sales = SalesAt(history, I)
               /\ \A i \in inRange :
                     Cardinality({k \in 1..Len(time_series) :
                                     InMonth(history[i], time_series[k].month)}) = 1

\* a demand result with a bucket, a record on the start of the range, a record
\* on its end and a record left out
C7_Witness ==
    \E t \in Threads :
        /\ DemandReturned(t)
        /\ LET history == WidgetHistory.items
               inRange == InRange(history, call[t].start_date, call[t].end_date)
           IN  /\ Len(call[t].result.value.time_series) = 1
               /\ \E i \in inRange :
                     \/ history[i].date = call[t].start_date
                     \/ history[i].date = call[t].end_date
               /\ \E i \in 1..Len(history) : i \notin inRange

\* C8: in every demand result, summary.total_sales is the sum of total_sales
\* over the entries of time_series and summary.total_months their number.
C8_DemandSumInvariant ==
    \A t \in Threads :
        DemandReturned(t)
        => LET time_series == call[t].result.value.time_series
               summary == call[t].result.value.summary
           IN  /\ summary.total_sales = TotalSalesAt(time_series, 1..Len(time_series))
               /\ summary.total_months = Cardinality(DOMAIN time_series)

\* a demand result with two months that have sales and returns
C8_Witness ==
    \E t \in Threads :
        /\ DemandReturned(t)
        /\ Len(call[t].result.value.time_series) = 2
        /\ call[t].result.value.summary.total_sales > 0
        /\ \E k \in 1..2 : call[t].result.value.time_series[k].total_returns > 0

ZeroSummary ==
    [total_months |-> 0, total_sales |-> 0, total_revenue |-> RZero,
     average_monthly_sales |-> RZero]

\* the call of DemandTool.execute passed validation, the product has a history
\* with well-formed dates, and none of its records lies in the range
NothingInRange(t) ==
    /\ Analysed(t, "product_demand")
    /\ ~WidgetHistory.isnull
    /\ AllDatesParse(WidgetHistory.items)
    /\ InRange(WidgetHistory.items, call[t].start_date, call[t].end_date) = {}

\* C9: when the history exists and no record falls in the range (an empty
\* history included), get_product_demand returns a result with an empty
\* time_series and an all-zero summary, and the tool passes it on as a
\* success: the answer carries it, it is not "not found".
C9_EmptyRangeIsSuccess ==
    \A t \in Threads :
        NothingInRange(t)
        => /\ call[t].result.kind = "return"
           /\ call[t].result.value.time_series = <<>>
           /\ call[t].result.value.summary = ZeroSummary
           /\ pc[t] = "done" =>
                 /\ response[t].success
                 /\ ~response[t].analysis_data.isnull
                 /\ response[t].analysis_data.result = call[t].result.value

\* an answered request on a non-empty history with nothing in the range
C9_Witness ==
    \E t \in Threads :
        /\ NothingInRange(t)
        /\ WidgetHistory.items # <<>>
        /\ pc[t] = "done"
        /\ response[t].success

\* the dates of the demand request of thread t are not a valid range
BadRange(t) ==
    /\ call[t].tool = "product_demand"
    /\ \/ ~Parses(call[t].start_date)
       \/ ~Parses(call[t].end_date)
       \/ Instant(call[t].start_date) > Instant(call[t].end_date)

\* C10: a demand request whose start or end date cannot be parsed, or whose
\* start is after its end, fails validation: the product is not loaded, no
\* analysis result is produced, and the caller gets success = False with an
\* error message.
C10_InvalidRangeIsRequestFailure ==
    \A t \in Threads :
        BadRange(t)
        => /\ call[t].queries = 0
           /\ call[t].result = Raise(InvalidInput)
           /\ pc[t] \in {"complete", "done"}
           /\ pc[t] = "done" =>
                 /\ ~response[t].success
                 /\ response[t].message = "Error analyzing demand"
                 /\ response[t].analysis_data = NoData

\* an answered request, for the stored product, whose start is after its end
C10_Witness ==
    \E t \in Threads :
        /\ BadRange(t)
        /\ call[t].product_id = PidWidget
        /\ Parses(call[t].start_date) /\ Parses(call[t].end_date)
        /\ pc[t] = "done"
        /\ ~response[t].success

\* the analyzer of thread t was called for a product that has no row
NotLoaded(t) ==
    /\ call[t].tool # "none"
    /\ call[t].queries = 1
    /\ ~table[call[t].product_id].present

\* a product dict that lacks the key 'history'
ProductNoHistoryKey == Return([name |-> PidWidget])

\* C11: when the product cannot be loaded, or its dict has no history key,
\* the analyzer returns None without raising; the tool's execute then returns
\* None with metrics.success False and the handler answers success = False,
\* analysis_data = None and the "not found" message.
C11_NotFoundPropagates ==
    /\ \A t \in Threads :
          NotLoaded(t)
          => /\ call[t].result = ReturnNone
             /\ pc[t] \in {"complete", "done"}
             /\ pc[t] = "done" =>
                   /\ response[t] = EcommerceResponse(FALSE, "Product not found", NoData)
                   /\ ~metrics[call[t].tool].success
                   /\ metrics[call[t].tool].error = NoError
    /\ LifecycleOfProduct(ProductNoHistoryKey, clock) = ReturnNone
    /\ SeasonalityOfProduct(ProductNoHistoryKey) = ReturnNone
    /\ \A start_date \in DateInputs, end_date \in DateInputs :
          DemandOfProduct(ProductNoHistoryKey, start_date, end_date) = ReturnNone

\* an answered request for a product that has no row
C11_Witness ==
    \E t \in Threads :
        /\ NotLoaded(t)
        /\ pc[t] = "done"
        /\ response[t].message = "Product not found"

\* the returns of the records of history at the indices I, an absent field
\* counting as 0
RECURSIVE ReturnsAt(_, _)
ReturnsAt(history, I) ==
    IF I = {} THEN 0
    ELSE LET i == CHOOSE x \in I : TRUE
         IN  (IF "returns" \in DOMAIN history[i] THEN history[i].returns ELSE 0)
             + ReturnsAt(history, I \ {i})

RECURSIVE TotalReturnsAt(_, _)
TotalReturnsAt(time_series, K) ==
    IF K = {} THEN 0
    ELSE LET k == CHOOSE x \in K : TRUE
         IN  time_series[k].total_returns + TotalReturnsAt(time_series, K \ {k})

\* the stored history has well-formed dates, non-zero prices and a record
\* without the returns field
LacksReturns ==
    /\ ~WidgetHistory.isnull
    /\ AllDatesParse(WidgetHistory.items)
    /\ \A i \in 1..Len(WidgetHistory.items) : WidgetHistory.items[i].price # RZero
    /\ \E i \in 1..Len(WidgetHistory.items) : "returns" \notin DOMAIN WidgetHistory.items[i]

\* C12: a record without a returns field counts as returns = 0 wherever
\* returns are read, and never makes an analyzer fail: no analyzer call on
\* such a history raises, and the demand buckets' total_returns add up to the
\* returns of the in-range records that have the field.
C12_MissingReturnsIsZero ==
    \A t \in Threads :
        ((\E tool \in ToolNames : Analysed(t, tool)) /\ LacksReturns)
        => /\ call[t].result.kind = "return"
           /\ DemandReturned(t) =>
                 LET time_series == call[t].result.value.time_series
                 IN  TotalReturnsAt(time_series, 1..Len(time_series))
                     = ReturnsAt(WidgetHistory.items,
                                 InRange(WidgetHistory.items,
                                         call[t].start_date, call[t].end_date))

LifecycleReturned(t) == call[t].tool = "product_lifecycle" /\ call[t].result.kind = "return"

\* the growth_rate of a lifecycle result, 0 when the metrics do not hold it
GrowthRateOf(result) ==
    IF "growth_rate" \in DOMAIN result.metrics THEN result.metrics.growth_rate ELSE RZero

\* C13: in every lifecycle result current_stage is "decline" exactly when
\* growth_rate < 0 and "introduction" otherwise; "maturity" and "growth" are
\* never returned.
C13_StageDeclineOrIntroduction ==
    \A t \in Threads :
        LifecycleReturned(t)
        => call[t].result.value.computed.current_stage
              = IF GrowthRateOf(call[t].result.value).n < 0 THEN "decline" ELSE "introduction"

\* a lifecycle result over two quarters whose sales fall
C13_Witness ==
    \E t \in Threads :
        /\ LifecycleReturned(t)
        /\ GrowthRateOf(call[t].result.value).n < 0
        /\ call[t].result.value.computed.current_stage = "decline"

SeasonalityReturned(t) ==
    call[t].tool = "product_seasonality" /\ call[t].result.kind = "return"

\* a rational in [0, 1]
InUnit(x) == x.n >= 0 /\ x.n <= x.d

\* 2 * mean over the observed months of (index - 1)^2
TwiceMeanSquare(monthly_indices) ==
    RDiv(RMul(RInt(2),
              SumRats([i \in 1..Len(monthly_indices) |->
                          RMul(RSub(monthly_indices[i].v, ROne),
                               RSub(monthly_indices[i].v, ROne))])),
         RInt(Len(monthly_indices)))

\* C14: in every seasonality result for a non-empty history,
\* seasonality_strength = min(1, 2 * mean (index - 1)^2) and
\* confidence_score = min(1, 1.5 * seasonality_strength), and both lie in
\* [0, 1].
C14_SeasonalityBounds ==
    \A t \in Threads :
        (SeasonalityReturned(t) /\ WidgetHistory.items # <<>>)
        => LET patterns == call[t].result.value.seasonality_patterns
               strength == patterns.seasonality_strength
               confidence == call[t].result.value.interpretation.confidence_score
           IN  /\ InUnit(strength)
               /\ InUnit(confidence)
               /\ strength = RMin(ROne, TwiceMeanSquare(patterns.monthly_indices))
               /\ confidence = RMin(ROne, RMul(Rat(3, 2), strength))

\* a seasonality result whose strength is capped at 1 although the indices
\* spread further
C14_Witness ==
    \E t \in Threads :
        /\ SeasonalityReturned(t)
        /\ Len(WidgetHistory.items) >= 2
        /\ RLess(ROne, TwiceMeanSquare(
                    call[t].result.value.seasonality_patterns.monthly_indices))
        /\ call[t].result.value.seasonality_patterns.seasonality_strength = ROne

\* threads t and u made the same call: same tool, product and date range
SameCall(t, u) ==
    /\ call[t].tool # "none"
    /\ call[u].tool = call[t].tool
    /\ call[u].product_id = call[t].product_id
    /\ call[u].start_date = call[t].start_date
    /\ call[u].end_date = call[t].end_date

\* the outcome of an analyzer call with days_in_stage left out
ButDaysInStage(result) ==
    IF result.kind = "return" /\ "computed" \in DOMAIN result.value
    THEN [result EXCEPT !.value.computed.days_in_stage = 0]
    ELSE result

MonthNumber(month_key) ==
    12 * DigitsValue(SubSeq(month_key, 1, 4)) + DigitsValue(SubSeq(month_key, 6, 7))

\* C16: the demand time series is in strictly ascending year-month order, so
\* no month occurs twice, and its months are exactly the calendar months of
\* the records in the range, whatever the order of the records.
C16_TimeSeriesAscending ==
    \A t \in Threads :
        (DemandReturned(t) /\ call[t].queries = 1)
        => LET history == WidgetHistory.items
               time_series == call[t].result.value.time_series
               inRange == InRange(history, call[t].start_date, call[t].end_date)
           IN  /\ \A k \in 1..(Len(time_series) - 1) :
                     MonthNumber(time_series[k].month) < MonthNumber(time_series[k + 1].month)
               /\ {MonthNumber(time_series[k].month) : k \in 1..Len(time_series)}
                     = {12 * fromisoformat(history[i].date).year
                           + fromisoformat(history[i].date).month : i \in inRange}

\* a demand result with two months, of two different years, whose records
\* came in the reverse order
C16_Witness ==
    \E t \in Threads :
        /\ DemandReturned(t)
        /\ Len(call[t].result.value.time_series) = 2
        /\ Len(WidgetHistory.items) = 2
        /\ Instant(WidgetHistory.items[2].date) < Instant(WidgetHistory.items[1].date)
        /\ fromisoformat(WidgetHistory.items[2].date).year
              < fromisoformat(WidgetHistory.items[1].date).year

\* the demand request of the scenario: the three-record history and the
\* range 2024-01-01..2024-02-28
ScenarioCall(t) ==
    /\ Analysed(t, "product_demand")
    /\ WidgetHistory = ListHistory(ScenarioHistory)
    /\ call[t].start_date = <<50, 48, 50, 52, 45, 48, 49, 45, 48, 49>>
    /\ call[t].end_date = <<50, 48, 50, 52, 45, 48, 50, 45, 50, 56>>

ScenarioResult ==
    [time_series |->
        <<[month |-> <<50, 48, 50, 52, 45, 48, 49>>,
           total_sales |-> 15,
           total_revenue |-> [n |-> 75, d |-> 1],
           total_returns |-> 1,
           average_price |-> [n |-> 5, d |-> 1],
           return_rate |-> [n |-> 667, d |-> 10000]],
          [month |-> <<50, 48, 50, 52, 45, 48, 50>>,
           total_sales |-> 8,
           total_revenue |-> [n |-> 48, d |-> 1],
           total_returns |-> 0,
           average_price |-> [n |-> 6, d |-> 1],
           return_rate |-> [n |-> 0, d |-> 1]]>>,
     summary |->
        [total_months |-> 2,
         total_sales |-> 23,
         total_revenue |-> [n |-> 123, d |-> 1],
         average_monthly_sales |-> [n |-> 23, d |-> 2]]]

\* C17: for the scenario history and the range 2024-01-01..2024-02-28 the
\* demand result is bucket 2024-01 (15, 75.0, 1, 5.0, 0.0667), bucket 2024-02
\* (8, 48.0, 0, 6.0, 0) and the summary (2, 23, 123.0, 11.5), and the answer
\* carries it.
C17_DemandScenario ==
    \A t \in Threads :
        ScenarioCall(t)
        => /\ call[t].result = Return(ScenarioResult)
           /\ pc[t] = "done" =>
                 /\ response[t].success
                 /\ response[t].analysis_data.result = ScenarioResult

\* the scenario request, answered
C17_Witness ==
    \E t \in Threads :
        /\ ScenarioCall(t)
        /\ pc[t] = "done"
        /\ response[t].success

\* the tool that analyses requests of the type
AnalyzerFor(request_type) ==
    CASE request_type = "analyze_product_lifecycle" -> "product_lifecycle"
      [] request_type = "analyze_product_seasonality" -> "product_seasonality"
      [] request_type = "analyze_product_demand" -> "product_demand"
      [] OTHER -> "none"

\* the request of thread t is one that reaches a handler
Handled(t) ==
    /\ req[t].request_type \in RequestTypes \ {"other"}
    /\ req[t].confidence_score.n * 10 >= 7 * req[t].confidence_score.d

\* a request below the confidence threshold or of type "other" is answered
\* with success = False and no tool call; a handled request calls the tool of
\* its type only, and loads the product at most once
OneAnalyzerPerRequest ==
    \A t \in Threads :
        req[t] # NoRequest
        => IF Handled(t)
           THEN /\ call[t].tool \in {"none", AnalyzerFor(req[t].request_type)}
                /\ call[t].tool # "none" => call[t].queries \in {0, 1}
                /\ pc[t] \in {"complete", "respond", "done"} => call[t].tool # "none"
           ELSE /\ call[t] = NoCall
                /\ pc[t] = "done"
                /\ ~response[t].success
                /\ response[t].analysis_data = NoData

\* a tool call, once made, stays the call of the request until the request
\* is over, and a step changes the metrics of no tool but the one the request
\* is routed to
OneCallPerRequest ==
    /\ \A t \in Threads :
          call[t] # NoCall => (call'[t] = call[t] \/ (call'[t] = NoCall /\ pc'[t] = "idle"))
    /\ \A n \in ToolNames :
          metrics'[n] # metrics[n] => n = AnalyzerFor(req[MainThread].request_type)

\* C18: a routed request invokes at most one analyzer, the one of its type,
\* at most once, and none when its confidence_score is below 0.7 or its type
\* is "other" (the answer is then success = False); no analyzer call touches
\* another tool.
C18_OneAnalyzerPerRequest == []OneAnalyzerPerRequest /\ [][OneCallPerRequest]_vars

\* an answered seasonality request that loaded the product once, after an
\* earlier request was served
C18_Witness ==
    \E t \in Threads :
        /\ Handled(t)
        /\ pc[t] = "done"
        /\ call[t].tool = "product_seasonality"
        /\ call[t].queries = 1
        /\ served = 1

\* the rearrangements of a history: every permutation of a short one, the
\* reversal of a long one
Rearrangements(history) ==
    IF Len(history) <= MaxHist + 1
    THEN {[i \in 1..Len(history) |-> history[p[i]]] :
             p \in {q \in [1..Len(history) -> 1..Len(history)] :
                       \A i, j \in 1..Len(history) : q[i] = q[j] => i = j}}
    ELSE {[i \in 1..Len(history) |-> history[Len(history) + 1 - i]]}

\* C19: the lifecycle result does not depend on the order of the history
\* records: for every rearrangement of the stored history, records of equal
\* date included, get_product_lifecycle gives the same metrics,
\* stage_start_date, current_stage and stage_transition_risk.
C19_LifecycleOrderIndependent ==
    \A t \in Threads :
        (LifecycleReturned(t) /\ Analysed(t, "product_lifecycle"))
        => \A rearranged \in Rearrangements(WidgetHistory.items) :
              ButDaysInStage(LifecycleOfProduct(
                                 Return([history |-> ListHistory(rearranged)]), clock))
                 = ButDaysInStage(call[t].result)

\* the positions of the k-th window of 90 among n records
Window(k, n) == {i \in 1..n : (k - 1) * 90 < i /\ i <= k * 90}

\* C20: the date-sorted history of n >= 1 records is split by position into
\* ceil(n/90) windows, each of 90 records but the last, which holds 1 to 90;
\* every record lies in exactly one window, each quarter is the sum of the
\* sales of its window, and the quarters add up to the total sales.
C20_QuartersPositional ==
    \A t \in Threads :
        (Analysed(t, "product_lifecycle") /\ Truthy(WidgetHistory))
        => LET sorted == SortedByDate(WidgetHistory.items)
               n == Len(sorted)
               quarters == Quarters(sorted)
               count == (n + 89) \div 90
           IN  /\ Len(quarters) = count
               /\ \A k \in 1..(count - 1) : Cardinality(Window(k, n)) = 90
               /\ Cardinality(Window(count, n)) \in 1..90
               /\ \A i \in 1..n : Cardinality({k \in 1..count : i \in Window(k, n)}) = 1
               /\ \A k \in 1..count : quarters[k] = SalesAt(sorted, Window(k, n))
               /\ SumInts(quarters) = SalesAt(sorted, 1..n)
               /\ LifecycleReturned(t) =>
                     call[t].result.value.metrics.market_saturation.n
                        * MaxInts(quarters)
                     = quarters[count] * call[t].result.value.metrics.market_saturation.d

\* a lifecycle result over 181 records: two windows of 90 and one of 1
C20_Witness ==
    \E t \in Threads :
        /\ Analysed(t, "product_lifecycle")
        /\ LifecycleReturned(t)
        /\ Len(WidgetHistory.items) = 181
        /\ Len(Quarters(SortedByDate(WidgetHistory.items))) = 3

\* the steps of the quarters whose previous quarter has sales: the k with
\* quarters[k - 1] > 0, quarters counted from 1
GrowthSteps(quarters) == {k \in 2..Len(quarters) : quarters[k - 1] > 0}

\* the relative change of step k
GrowthAt(quarters, k) == Rat(quarters[k] - quarters[k - 1], quarters[k - 1])

RECURSIVE SumGrowthAt(_, _)
SumGrowthAt(quarters, K) ==
    IF K = {} THEN RZero
    ELSE LET k == CHOOSE x \in K : TRUE
         IN  RAdd(GrowthAt(quarters, k), SumGrowthAt(quarters, K \ {k}))

\* g holds one entry per step with a previous quarter that has sales, in the
\* order of the steps, and growth_rate is their mean, 0 when there is none
GrowthAsSpecified(quarters, g, growth_rate) ==
    /\ Len(g) = Cardinality(GrowthSteps(quarters))
    /\ \A k \in GrowthSteps(quarters) :
          g[Cardinality({j \in GrowthSteps(quarters) : j <= k})] = GrowthAt(quarters, k)
    /\ growth_rate = IF GrowthSteps(quarters) = {} THEN RZero
                     ELSE Rat(SumGrowthAt(quarters, GrowthSteps(quarters)).n,
                              SumGrowthAt(quarters, GrowthSteps(quarters)).d
                                 * Cardinality(GrowthSteps(quarters)))

\* the lifecycle analyzer returned a result for the stored, non-empty history
LifecycleOfStored(t) ==
    /\ Analysed(t, "product_lifecycle")
    /\ LifecycleReturned(t)
    /\ Truthy(WidgetHistory)

StoredQuarters == Quarters(SortedByDate(WidgetHistory.items))

\* C21: the growth rates hold (Q[i] - Q[i-1]) / Q[i-1] for each step with
\* Q[i-1] > 0 and nothing for a step with Q[i-1] = 0; growth_rate is their
\* mean over the entries present, and 0 when there is none.
C21_GrowthRatesSkipEmptyQuarters ==
    \A t \in Threads :
        LifecycleOfStored(t)
        => GrowthAsSpecified(StoredQuarters, GrowthRates(StoredQuarters),
                             call[t].result.value.metrics.growth_rate)

\* a lifecycle result over four quarters, one of them empty: two steps count
\* and one does not
C21_Witness ==
    \E t \in Threads :
        /\ LifecycleOfStored(t)
        /\ Len(WidgetHistory.items) = 271
        /\ call[t].result.value.metrics.growth_rate = ROne

\* the quarters that no quarter exceeds
PeakQuarters(quarters) ==
    {k \in 1..Len(quarters) : \A j \in 1..Len(quarters) : quarters[j] <= quarters[k]}

\* market_saturation is the last quarter over the peak quarter, 0 when the
\* peak is 0; it lies in [0, 1] and is 1 exactly when the last quarter is a
\* peak with sales
SaturationAsSpecified(quarters, market_saturation) ==
    /\ \E k \in PeakQuarters(quarters) :
          market_saturation = IF quarters[k] = 0 THEN RZero
                              ELSE Rat(quarters[Len(quarters)], quarters[k])
    /\ InUnit(market_saturation)
    /\ market_saturation = ROne
          <=> (Len(quarters) \in PeakQuarters(quarters) /\ quarters[Len(quarters)] > 0)

\* C22: market_saturation = Q[last] / max(Q), 0 when max(Q) = 0; with
\* non-negative sales it lies in [0, 1] and is 1 exactly when the last quarter
\* is a peak quarter with positive sales.
C22_MarketSaturation ==
    \A t \in Threads :
        LifecycleOfStored(t)
        => SaturationAsSpecified(StoredQuarters,
                                 call[t].result.value.metrics.market_saturation)

\* a lifecycle result whose last quarter has sales but lies below the peak
C22_Witness ==
    \E t \in Threads :
        /\ LifecycleOfStored(t)
        /\ Len(WidgetHistory.items) > QuarterSize
        /\ RLess(RZero, call[t].result.value.metrics.market_saturation)
        /\ RLess(call[t].result.value.metrics.market_saturation, ROne)

\* the stored history keeps to the data model but for returns <= sales: every
\* date parses, every price is positive, every record has its returns
WellFormedHistory ==
    /\ Truthy(WidgetHistory)
    /\ AllDatesParse(WidgetHistory.items)
    /\ \A i \in 1..Len(WidgetHistory.items) :
          /\ RLess(RZero, WidgetHistory.items[i].price)
          /\ "returns" \in DOMAIN WidgetHistory.items[i]

\* clamp01(0.4 * growth_volatility + 0.3 * market_saturation
\*         + 0.3 * competitive_pressure)
WeightedRisk(m) ==
    RMin(ROne, RMax(RZero,
        RAdd(RMul(Rat(4, 10), m.growth_volatility),
             RAdd(RMul(Rat(3, 10), m.market_saturation),
                  RMul(Rat(3, 10), m.competitive_pressure)))))

\* more returns than sales over the whole history, which has sales
ReturnsExceedSales(history) ==
    /\ SalesAt(history, 1..Len(history)) > 0
    /\ ReturnsAt(history, 1..Len(history)) > SalesAt(history, 1..Len(history))

\* C23: in every lifecycle result growth_volatility, competitive_pressure and
\* stage_transition_risk lie in [0, 1] and stage_transition_risk =
\* clamp01(0.4 * growth_volatility + 0.3 * market_saturation + 0.3 *
\* competitive_pressure); a history that keeps to the data model yields a
\* result also when its returns exceed its sales.
C23_LifecycleOutputsInUnit ==
    \A t \in Threads :
        /\ LifecycleOfStored(t)
           => /\ InUnit(call[t].result.value.metrics.growth_volatility)
              /\ InUnit(call[t].result.value.metrics.competitive_pressure)
              /\ InUnit(call[t].result.value.computed.stage_transition_risk)
              /\ call[t].result.value.computed.stage_transition_risk
                    = WeightedRisk(call[t].result.value.metrics)
        /\ (Analysed(t, "product_lifecycle") /\ WellFormedHistory)
           => call[t].result.kind = "return"

\* a lifecycle result on a history with four returns for each sale: the
\* pressure is capped at 1
C23_Witness ==
    \E t \in Threads :
        /\ LifecycleOfStored(t)
        /\ WellFormedHistory
        /\ ReturnsExceedSales(WidgetHistory.items)
        /\ call[t].result.value.metrics.competitive_pressure = ROne
        /\ RLess(RZero, call[t].result.value.computed.stage_transition_risk)

\* the calendar month of a record
MonthOf(entry) == fromisoformat(entry.date).month

\* the positions of the records of the calendar month, of whatever year
InCalendarMonth(history, month) == {i \in 1..Len(history) : MonthOf(history[i]) = month}

\* a dict whose keys are exactly the months of the set, each once
KeyedBy(d, months) ==
    /\ {d[i].k : i \in 1..Len(d)} = months
    /\ Len(d) = Cardinality(months)

\* the maps of a seasonality result are keyed by the observed months, the
\* average of a month is the mean of the sales of its records, and its index
\* the average over the overall average, 0 when that is 0
IndicesAsSpecified(history, monthly_indices, monthly_averages, overall_average) ==
    /\ KeyedBy(monthly_indices, {MonthOf(history[i]) : i \in 1..Len(history)})
    /\ KeyedBy(monthly_averages, {MonthOf(history[i]) : i \in 1..Len(history)})
    /\ \A i \in 1..Len(monthly_indices) : monthly_indices[i].k \in 1..12
    /\ \A i \in 1..Len(monthly_averages) :
          monthly_averages[i].v
             = Rat(SalesAt(history, InCalendarMonth(history, monthly_averages[i].k)),
                   Cardinality(InCalendarMonth(history, monthly_averages[i].k)))
    /\ \A i \in 1..Len(monthly_indices) :
          monthly_indices[i].v
             = IF overall_average = RZero THEN RZero
               ELSE RDiv(DictGet(monthly_averages, monthly_indices[i].k), overall_average)

\* C24: in every seasonality result for a non-empty history the keys of
\* monthly_indices and of monthly_averages are exactly the calendar months
\* 1..12 with at least one record, years collapsed; a month never observed has
\* no entry, and when overall_average is 0 every observed month's index is 0.
C24_ObservedMonthsOnly ==
    \A t \in Threads :
        (SeasonalityReturned(t) /\ Analysed(t, "product_seasonality"))
        => IndicesAsSpecified(WidgetHistory.items,
                              call[t].result.value.seasonality_patterns.monthly_indices,
                              call[t].result.value.metrics.monthly_averages,
                              call[t].result.value.metrics.overall_average_sales)

\* a seasonality result on a history with records of January of two years
\* and of February: two keys
C24_Witness ==
    \E t \in Threads :
        /\ SeasonalityReturned(t)
        /\ Analysed(t, "product_seasonality")
        /\ \E i, j \in 1..Len(WidgetHistory.items) :
              /\ MonthOf(WidgetHistory.items[i]) = MonthOf(WidgetHistory.items[j])
              /\ fromisoformat(WidgetHistory.items[i].date).year
                    # fromisoformat(WidgetHistory.items[j].date).year
        /\ Len(call[t].result.value.seasonality_patterns.monthly_indices) = 2

EnglishMonths ==
    <<"January", "February", "March", "April", "May", "June", "July", "August",
      "September", "October", "November", "December">>

\* the list holds each month of the set once, and nothing else
ListsExactly(months, S) ==
    /\ {months[i] : i \in 1..Len(months)} = S
    /\ Len(months) = Cardinality(S)

\* the keys of the dict whose index is above 1.1, and those below 0.9
AboveAverage(monthly_indices) ==
    {monthly_indices[i].k : i \in {j \in 1..Len(monthly_indices) :
                                      monthly_indices[j].v.n * 10 > 11 * monthly_indices[j].v.d}}
BelowAverage(monthly_indices) ==
    {monthly_indices[i].k : i \in {j \in 1..Len(monthly_indices) :
                                      monthly_indices[j].v.n * 10 < 9 * monthly_indices[j].v.d}}

PeaksAndLowsAsSpecified(patterns, interpretation) ==
    /\ ListsExactly(patterns.peak_months, AboveAverage(patterns.monthly_indices))
    /\ ListsExactly(patterns.low_months, BelowAverage(patterns.monthly_indices))
    /\ AboveAverage(patterns.monthly_indices) \cap BelowAverage(patterns.monthly_indices) = {}
    /\ interpretation.peak_seasons
          = [i \in 1..Len(patterns.peak_months) |-> EnglishMonths[patterns.peak_months[i]]]
    /\ interpretation.low_seasons
          = [i \in 1..Len(patterns.low_months) |-> EnglishMonths[patterns.low_months[i]]]

\* C25: peak_months is exactly the set of observed months with index > 1.1
\* and low_months exactly the set with index < 0.9: disjoint, and a month with
\* 0.9 <= index <= 1.1 in neither; peak_seasons and low_seasons are the
\* English names of the same months in the same order.
C25_PeakAndLowMonths ==
    \A t \in Threads :
        (SeasonalityReturned(t) /\ Analysed(t, "product_seasonality"))
        => PeaksAndLowsAsSpecified(call[t].result.value.seasonality_patterns,
                                   call[t].result.value.interpretation)

\* a seasonality result with a peak month, a low month and a month that is
\* neither
C25_Witness ==
    \E t \in Threads :
        /\ SeasonalityReturned(t)
        /\ Analysed(t, "product_seasonality")
        /\ call[t].result.value.seasonality_patterns.peak_months # <<>>
        /\ call[t].result.value.seasonality_patterns.low_months # <<>>
        /\ Len(call[t].result.value.seasonality_patterns.monthly_indices)
              > Len(call[t].result.value.seasonality_patterns.peak_months)
                + Len(call[t].result.value.seasonality_patterns.low_months)

Completed(t) == call[t].tool # "none" /\ pc[t] \in {"respond", "done"}

\* C27: the computation_time of an invocation is the time between the start
\* of that invocation and its completion; it includes neither the time since
\* the tool was built nor the duration of earlier calls.
C27_ComputationTimeIsElapsed ==
    \A t \in Threads :
        Completed(t)
        => metrics[call[t].tool].computation_time = clock - call[t].started

\* C28: when the product row has a NULL history, each of the three analyzers
\* returns None without raising and the handler answers "not found", as for
\* a product without history.
C28_NullHistoryIsNoData ==
    \A t \in Threads :
        ((\E tool \in ToolNames : Analysed(t, tool)) /\ WidgetHistory.isnull)
        => /\ call[t].result = ReturnNone
           /\ pc[t] = "done" =>
                 response[t] = EcommerceResponse(FALSE, "Product not found", NoData)

\* the request of thread t has its response
Answered(t) == pc[t] = "done"

\* C29: every response of process_ecommerce_request has success = True
\* exactly when analysis_data is not None, and with requests served one at a
\* time a response with success = True carries metrics.success = True and a
\* computation_time that is not None.
C29_SuccessCarriesData ==
    \A t \in Threads :
        Answered(t)
        => /\ response[t].success <=> ~response[t].analysis_data.isnull
           /\ response[t].success
                 => /\ response[t].analysis_data.metrics.success = TRUE
                    /\ response[t].analysis_data.metrics.computation_time # NoneTime
                    /\ response[t].analysis_data.result = call[t].result.value

\* the second request served, answered with its analysis
C29_Witness ==
    \E t \in Threads :
        /\ Answered(t)
        /\ served = 1
        /\ response[t].success
        /\ response[t].analysis_data.metrics.success

\* the metrics of the tool say how the last execute ended: the time is set,
\* success tells a returned result from None and from a raise, error is set
\* when it raised and None otherwise; an invalid product id raises ValueError
\* and the product is not loaded
MetricsTellOutcome ==
    \A t \in Threads :
        Completed(t)
        => /\ metrics[call[t].tool].computation_time # NoneTime
           /\ metrics[call[t].tool].success <=> call[t].result.kind = "return"
           /\ metrics[call[t].tool].success <=> (pc[t] = "respond" \/ response[t].success)
           /\ metrics[call[t].tool].error # NoError <=> call[t].result.kind = "raise"
           /\ call[t].result.kind = "raise"
                 => metrics[call[t].tool].error = call[t].result.exc
           /\ ~NonBlank(call[t].product_id)
                 => /\ call[t].result = Raise(InvalidInput)
                    /\ call[t].queries = 0

\* a call that does not raise leaves no error of an earlier call behind
ErrorCleared ==
    \A n \in ToolNames :
        (metrics'[n] # metrics[n] /\ call[MainThread].result.kind # "raise")
        => metrics'[n].error = NoError

\* C30: every call of a tool's execute completes the metrics before it
\* returns or raises: computation_time is then not None, metrics.success is
\* True exactly when execute returned a result, metrics.error is set exactly
\* when execute raised (an invalid product id raises ValueError without
\* loading the product), and the next call that does not raise clears it.
C30_ExecuteCompletesMetrics == []MetricsTellOutcome /\ [][ErrorCleared]_vars

\* a second request whose product id is blank: execute raised ValueError,
\* the product was not loaded and the metrics hold the error
C30_Witness ==
    \E t \in Threads :
        /\ Completed(t)
        /\ served = 1
        /\ ~NonBlank(call[t].product_id)
        /\ call[t].queries = 0
        /\ metrics[call[t].tool].error = InvalidInput
        /\ metrics[call[t].tool].computation_time # NoneTime

====
